---- MODULE Spec2Model ----
(***************************************************************************)
(* State-machine model of src/index.js: the soundboard server.             *)
(*                                                                         *)
(* The program is one Node.js process.  Every handler runs to its next     *)
(* `await` without interruption, so each action below is one such run:     *)
(* a request handler up to its first await, the continuation after an      *)
(* await, an event listener, or an event of the environment (a decode      *)
(* process exiting, the audio player changing state, a file written).      *)
(* Continuations of promises that are already resolved sit in `microtasks` *)
(* and run before any other event; the 'error' event of a failed spawn is  *)
(* queued with process.nextTick and runs once the microtask queue is empty.*)
(***************************************************************************)
EXTENDS Integers, Sequences, FiniteSets, TLC

\* ------------------------------------------------------------- bounds
MaxPlays == 3       \* /play requests received in a run; request r spawns decode process r
MaxUploads == 2     \* /upload requests received in a run; upload u stores file u
MaxRegPlays == 1    \* /play requests received in a run of RegSpec
MaxSubs == 2        \* WebSocket clients that connect in a run

PlayIds == 1..MaxPlays
UploadIds == 1..MaxUploads
SubIds == 1..MaxSubs
NULL == 0           \* currentProcess = null

\* ------------------------------------------------------------- registry
\* Keys a client can name.  soundMap is a plain JavaScript object, so a key
\* is looked up on the object and then on its prototype chain.
Names == {"siren", "constructor", "__proto__"}
ObjectPrototypeKeys == {"constructor"}
EmojiInputs == {"undefined", "x"}

Entry(f, e) == [kind |-> "entry", filename |-> f, emoji |-> e]
Undefined == [kind |-> "undefined", filename |-> -1, emoji |-> ""]
Builtin == [kind |-> "function", filename |-> -1, emoji |-> ""]
ObjectPrototype == [kind |-> "Object.prototype", filename |-> -1, emoji |-> ""]

NoProps == [n \in {} |-> Undefined]

\* JSON.parse(data): an object whose own properties are those of the text.
Parse(data) == [own |-> data, proto |-> ObjectPrototype]

\* JSON.stringify(soundMap): the own enumerable properties only.
Stringify(m) == m.own

\* soundMap[key]
Get(m, key) ==
    IF key \in DOMAIN m.own THEN m.own[key]
    ELSE IF key = "__proto__" THEN m.proto
    ELSE IF key \in ObjectPrototypeKeys THEN Builtin
    ELSE Undefined

\* soundMap[key] = value
Put(m, key, value) ==
    IF key = "__proto__" /\ key \notin DOMAIN m.own
    THEN [m EXCEPT !.proto = value]
    ELSE [m EXCEPT !.own = [n \in (DOMAIN m.own) \cup {key} |->
                                IF n = key THEN value ELSE m.own[n]]]

\* The sound files named by the entries of a snapshot.
FileIds(snapshot) == {snapshot[n].filename : n \in DOMAIN snapshot}

\* if (!soundData)
Truthy(v) == v.kind # "undefined"

\* emoji || ''
EmojiOrEmpty(e) == IF e = "undefined" THEN "" ELSE e

VARIABLES
    soundMap,        \* the in-memory registry object
    persisted,       \* contents of sounds/mappings.json
    files,           \* sound files present in SOUND_DIR
    connection,      \* "null" | "joined" | "subscribed" | "failed"
    status,          \* player.state.status
    attached,        \* decode processes whose stdout is the player's resource
    padding,         \* the resource is playing out its silence frames after stop()
    idleCleanup,     \* sessions whose player.once(Idle) listener is registered
    idleWaiters,     \* requests whose stopCurrentPlayback promise waits for Idle
    currentProcess,
    isPlaying,
    spawned, killed, exited, failed,
    errPending,      \* processes whose 'error' event is queued
    microtasks,      \* /play continuations ready to run
    pc, path,        \* per /play request: where its handler is, its soundPath
    written,         \* file ids of the entries that mappings.json has held so far
    upc, uname, uemoji, usnap,   \* per /upload request
    saveRejected,    \* uploads whose saveMap() rejected
    readyState,      \* per WebSocket client: "none" | "open" | "closed"
    inbox,           \* per WebSocket client: the sounds messages sent to it
    lastResp         \* the response written last

vars == <<soundMap, persisted, files, connection, status, attached, padding,
          idleCleanup, idleWaiters, currentProcess, isPlaying,
          spawned, killed, exited, failed, errPending, microtasks,
          pc, path, written, upc, uname, uemoji, usnap, saveRejected,
          readyState, inbox, lastResp>>

registryVars == <<soundMap, persisted, files, written>>
playerVars == <<status, attached, padding, idleCleanup, idleWaiters>>
sessionVars == <<currentProcess, isPlaying>>
processVars == <<spawned, killed, exited, failed, errPending>>
playReqVars == <<pc, path>>
uploadVars == <<upc, uname, uemoji, usnap, saveRejected>>
wsVars == <<readyState, inbox>>

\* ------------------------------------------------------------- start-up
\* mappings.json as found at start-up: absent/unreadable, or an earlier snapshot.
InitialSnapshots == {NoProps, [n \in {"siren"} |-> Entry(0, "")]}

Init ==
    /\ persisted \in InitialSnapshots
    /\ soundMap = Parse(persisted)
    /\ files = {persisted[n].filename : n \in DOMAIN persisted}
    /\ written = FileIds(persisted)
    /\ connection = "null"
    /\ status = "idle"
    /\ attached = {}
    /\ padding = FALSE
    /\ idleCleanup = {}
    /\ idleWaiters = <<>>
    /\ currentProcess = NULL
    /\ isPlaying = FALSE
    /\ spawned = {} /\ killed = {} /\ exited = {} /\ failed = {}
    /\ errPending = {}
    /\ microtasks = <<>>
    /\ pc = [r \in PlayIds |-> "new"]
    /\ path = [r \in PlayIds |-> -1]
    /\ upc = [u \in UploadIds |-> "new"]
    /\ uname = [u \in UploadIds |-> ""]
    /\ uemoji = [u \in UploadIds |-> ""]
    /\ usnap = [u \in UploadIds |-> NoProps]
    /\ saveRejected = {}
    /\ readyState = [c \in SubIds |-> "none"]
    /\ inbox = [c \in SubIds |-> <<>>]
    /\ lastResp = "none"

\* No promise continuation and no nextTick callback is pending: the event
\* loop is free to deliver the next I/O event, timer or request.
Quiet == microtasks = <<>> /\ errPending = {}


\* ------------------------------------------------------------- audio player
\* player.stop(): nothing when Idle; otherwise the resource starts its
\* silence padding and the player reaches Idle only in a later audio cycle.
PlayerStop(st, pad) == IF st = "idle" THEN pad ELSE TRUE

\* Faulty variant: play() adds the resource and leaves the old one attached.
PlayResourceKeepsOld(att, p) == att \cup {p}

\* player.play(resource): the new resource replaces the player's resource.
PlayResource(att, p) == {p}

Dead(p) == p \in exited \cup killed \cup failed

\* The player enters Idle and emits AudioPlayerStatus.Idle: every once(Idle)
\* listener runs.  The listeners of line 231 clear the session; the listeners
\* of line 265 resolve their promise, which queues the /play continuation.
EmitIdle ==
    /\ status' = "idle"
    /\ attached' = {}
    /\ padding' = FALSE
    /\ isPlaying' = IF idleCleanup # {} THEN FALSE ELSE isPlaying
    /\ currentProcess' = IF idleCleanup # {} THEN NULL ELSE currentProcess
    /\ idleCleanup' = {}
    /\ microtasks' = microtasks \o idleWaiters
    /\ pc' = [r \in PlayIds |->
                IF \E i \in 1..Len(idleWaiters) : idleWaiters[i] = r
                THEN "resumed" ELSE pc[r]]
    /\ idleWaiters' = <<>>

\* Buffering -> Playing when the stream becomes readable; with no subscribed
\* voice connection the player pauses itself instead (NoSubscriberBehavior.Pause).
PlayerReadable ==
    /\ Quiet
    /\ status = "buffering"
    /\ \E p \in attached : p \notin failed
    /\ status' = IF connection = "subscribed" THEN "playing" ELSE "autopaused"
    /\ UNCHANGED <<registryVars, connection, attached, padding, idleCleanup,
                   idleWaiters, sessionVars, processVars, microtasks,
                   playReqVars, uploadVars, wsVars, lastResp>>

\* Buffering -> Idle when the stream ends before it became readable.
PlayerStreamEnded ==
    /\ Quiet
    /\ status = "buffering"
    /\ \A p \in attached : Dead(p)
    /\ EmitIdle
    /\ UNCHANGED <<registryVars, connection, processVars, path,
                   uploadVars, wsVars, lastResp>>

\* Playing -> Idle when the resource has been read to its end: the decode
\* process is gone, or stop() started the silence padding.
PlayerFinished ==
    /\ Quiet
    /\ status = "playing"
    /\ padding \/ \A p \in attached : Dead(p)
    /\ EmitIdle
    /\ UNCHANGED <<registryVars, connection, processVars, path,
                   uploadVars, wsVars, lastResp>>

\* ------------------------------------------------------------- voice connection
\* client.once('ready'): joinVoiceChannel assigns connection.
ClientReady ==
    /\ Quiet
    /\ connection = "null"
    /\ connection' = "joined"
    /\ UNCHANGED <<registryVars, playerVars, sessionVars, processVars,
                   microtasks, playReqVars, uploadVars, wsVars, lastResp>>

\* entersState resolved: connection.subscribe(player).
EntersStateReady ==
    /\ Quiet
    /\ connection = "joined"
    /\ connection' = "subscribed"
    /\ status' = IF status = "autopaused" THEN "playing" ELSE status
    /\ UNCHANGED <<registryVars, attached, padding, idleCleanup, idleWaiters,
                   sessionVars, processVars, microtasks, playReqVars,
                   uploadVars, wsVars, lastResp>>

\* entersState rejected after 10 s: the error is logged, connection stays set
\* and the player is never subscribed.
EntersStateFailed ==
    /\ Quiet
    /\ connection = "joined"
    /\ connection' = "failed"
    /\ UNCHANGED <<registryVars, playerVars, sessionVars, processVars,
                   microtasks, playReqVars, uploadVars, wsVars, lastResp>>

\* ------------------------------------------------------------- decode processes
\* A decode process ends by itself.
ProcExit(p) ==
    /\ Quiet
    /\ p \in spawned /\ ~Dead(p)
    /\ exited' = exited \cup {p}
    /\ UNCHANGED <<registryVars, connection, playerVars, sessionVars, spawned,
                   killed, failed, errPending, microtasks, playReqVars,
                   uploadVars, wsVars, lastResp>>

\* currentProcess.on('error'), lines 214-219.
ProcessError(p) ==
    /\ microtasks = <<>>
    /\ p \in errPending
    /\ errPending' = errPending \ {p}
    /\ isPlaying' = FALSE
    /\ currentProcess' = NULL
    /\ padding' = PlayerStop(status, padding)
    /\ UNCHANGED <<registryVars, connection, status, attached, idleCleanup,
                   idleWaiters, spawned, killed, exited, failed, microtasks,
                   playReqVars, uploadVars, wsVars, lastResp>>

\* A sound file is removed from SOUND_DIR by something other than the server.
DeleteFile(f) ==
    /\ f \in files
    /\ files' = files \ {f}
    /\ UNCHANGED <<soundMap, persisted, written, connection, playerVars,
                   sessionVars, processVars, microtasks, playReqVars,
                   uploadVars, wsVars, lastResp>>


\* ------------------------------------------------------------- POST /play
\* The handler of request r has answered: its locals are gone.
Finish(r) ==
    /\ pc' = [pc EXCEPT ![r] = "done"]
    /\ path' = [path EXCEPT ![r] = -1]

\* Lines 171-176 and 178: the registry lookup.  A falsy soundData is answered
\* 404; path.join throws a TypeError when soundData has no filename string,
\* which the handler's catch answers 500; otherwise fs.stat is awaited.
PlayReceive(r, sound) ==
    /\ Quiet
    /\ pc[r] = "new"
    /\ \A q \in PlayIds : q < r => pc[q] # "new"
    /\ LET soundData == Get(soundMap, sound) IN
         IF ~Truthy(soundData)
         THEN /\ Finish(r)
              /\ lastResp' = "ClipNotFound404"
         ELSE IF soundData.kind # "entry"
         THEN /\ Finish(r)
              /\ lastResp' = "InternalError500"
         ELSE /\ pc' = [pc EXCEPT ![r] = "stat"]
              /\ path' = [path EXCEPT ![r] = soundData.filename]
              /\ lastResp' = lastResp
    /\ UNCHANGED <<registryVars, connection, playerVars, sessionVars,
                   processVars, microtasks, uploadVars, wsVars>>

\* Lines 180-184: fs.stat rejected.
PlayFileMissing(r) ==
    /\ Quiet
    /\ pc[r] = "stat"
    /\ path[r] \notin files
    /\ Finish(r)
    /\ lastResp' = "FileMissing404"
    /\ UNCHANGED <<registryVars, connection, playerVars, sessionVars,
                   processVars, microtasks, uploadVars, wsVars>>

\* Faulty variant: isPlaying is set before the connection check.
PlayNotConnectedSetsFlag(r) ==
    /\ Quiet
    /\ pc[r] = "stat"
    /\ path[r] \in files
    /\ connection = "null"
    /\ Finish(r)
    /\ lastResp' = "NotConnected500"
    /\ isPlaying' = TRUE
    /\ UNCHANGED <<registryVars, connection, playerVars, currentProcess,
                   processVars, microtasks, uploadVars, wsVars>>

\* Lines 186-188: if (!connection).
PlayNotConnected(r) ==
    /\ Quiet
    /\ pc[r] = "stat"
    /\ path[r] \in files
    /\ connection = "null"
    /\ Finish(r)
    /\ lastResp' = "NotConnected500"
    /\ UNCHANGED <<registryVars, connection, playerVars, sessionVars,
                   processVars, microtasks, uploadVars, wsVars>>

\* Faulty variant: stopCurrentPlayback forgets currentProcess.kill().
KillCurrentNoKill(cp, k) == k

\* Lines 258-261 of stopCurrentPlayback: the processes that have been sent kill().
KillCurrent(cp, k) == IF cp # NULL /\ cp \notin k THEN k \cup {cp} ELSE k

\* Lines 198-200 with stopCurrentPlayback, lines 256-269: the synchronous
\* part of the preemption.  With the player Idle the promise resolves at
\* once and the continuation is queued; otherwise a once(Idle) listener is
\* registered, player.stop() is called and the handler is suspended.
PlayPreempt(r) ==
    /\ Quiet
    /\ pc[r] = "stat"
    /\ path[r] \in files
    /\ connection # "null"
    /\ isPlaying
    /\ killed' = KillCurrent(currentProcess, killed)
    /\ currentProcess' = IF currentProcess # NULL /\ currentProcess \notin killed
                         THEN NULL ELSE currentProcess
    /\ IF status = "idle"
       THEN /\ microtasks' = Append(microtasks, r)
            /\ pc' = [pc EXCEPT ![r] = "resumed"]
            /\ UNCHANGED <<idleWaiters, padding>>
       ELSE /\ idleWaiters' = Append(idleWaiters, r)
            /\ padding' = PlayerStop(status, padding)
            /\ pc' = [pc EXCEPT ![r] = "waitIdle"]
            /\ UNCHANGED microtasks
    /\ UNCHANGED <<registryVars, connection, status, attached, idleCleanup,
                   isPlaying, spawned, exited, failed, errPending, path,
                   uploadVars, wsVars, lastResp>>

\* spawn(ffmpegPath, ...) returns a child process, returns one whose 'error'
\* event is queued (the executable could not be started), or throws.
SpawnOutcomes == {"ok", "asyncError", "throw"}

\* Lines 202-241: isPlaying = true, spawn, the 'error' listener, player.play,
\* the once(Idle) listener and the response; a throw of spawn is answered by
\* the catch of lines 238-241.
StartPlayback(r) ==
    \E outcome \in SpawnOutcomes :
        /\ isPlaying' = TRUE
        /\ Finish(r)
        /\ IF outcome = "throw"
           THEN /\ lastResp' = "InternalError500"
                /\ UNCHANGED <<currentProcess, spawned, failed, errPending,
                               status, attached, padding, idleCleanup>>
           ELSE /\ currentProcess' = r
                /\ spawned' = spawned \cup {r}
                /\ failed' = IF outcome = "asyncError" THEN failed \cup {r} ELSE failed
                /\ errPending' = IF outcome = "asyncError"
                                 THEN errPending \cup {r} ELSE errPending
                /\ status' = "buffering"
                /\ attached' = PlayResource(attached, r)
                /\ padding' = FALSE
                /\ idleCleanup' = idleCleanup \cup {r}
                /\ lastResp' = "Playing"

\* Lines 198-237 when isPlaying is false: no await between the check and the start.
PlayStartNow(r) ==
    /\ Quiet
    /\ pc[r] = "stat"
    /\ path[r] \in files
    /\ connection # "null"
    /\ ~isPlaying
    /\ StartPlayback(r)
    /\ UNCHANGED <<registryVars, connection, idleWaiters, killed, exited,
                   microtasks, uploadVars, wsVars>>

\* The continuation of `await stopCurrentPlayback()`.
PlayResume(r) ==
    /\ microtasks # <<>>
    /\ Head(microtasks) = r
    /\ pc[r] = "resumed"
    /\ microtasks' = Tail(microtasks)
    /\ StartPlayback(r)
    /\ UNCHANGED <<registryVars, connection, idleWaiters, killed, exited,
                   uploadVars, wsVars>>

\* ------------------------------------------------------------- POST /stop
\* The part of the state the /stop handler reads and writes.
Orch == [currentProcess |-> currentProcess, isPlaying |-> isPlaying,
         killed |-> killed, status |-> status, padding |-> padding]

\* Faulty variant: /stop drops the handle without currentProcess.kill().
StopHandlerNoKill(s) ==
    [currentProcess |-> NULL,
     isPlaying |-> FALSE,
     killed |-> s.killed,
     status |-> s.status,
     padding |-> PlayerStop(s.status, s.padding)]

\* Faulty variant: /stop toggles isPlaying instead of clearing it.
StopHandlerToggle(s) ==
    [currentProcess |-> NULL,
     isPlaying |-> ~s.isPlaying,
     killed |-> IF s.currentProcess # NULL
                THEN s.killed \cup {s.currentProcess} ELSE s.killed,
     status |-> s.status,
     padding |-> PlayerStop(s.status, s.padding)]

\* Faulty variant: /stop kills the process but keeps the handle.
StopHandlerKeepsHandle(s) ==
    [currentProcess |-> s.currentProcess,
     isPlaying |-> FALSE,
     killed |-> IF s.currentProcess # NULL
                THEN s.killed \cup {s.currentProcess} ELSE s.killed,
     status |-> s.status,
     padding |-> PlayerStop(s.status, s.padding)]

\* Lines 246-251.
StopHandler(s) ==
    [currentProcess |-> NULL,
     isPlaying |-> FALSE,
     killed |-> IF s.currentProcess # NULL
                THEN s.killed \cup {s.currentProcess} ELSE s.killed,
     status |-> s.status,
     padding |-> PlayerStop(s.status, s.padding)]

\* Lines 245-253: the handler has no await; it answers {status: 'Stopped'}.
Stop ==
    /\ Quiet
    /\ LET t == StopHandler(Orch) IN
         /\ currentProcess' = t.currentProcess
         /\ isPlaying' = t.isPlaying
         /\ killed' = t.killed
         /\ status' = t.status
         /\ padding' = t.padding
    /\ lastResp' = "Stopped"
    /\ UNCHANGED <<registryVars, connection, attached, idleCleanup, idleWaiters,
                   spawned, exited, failed, errPending, microtasks,
                   playReqVars, uploadVars, wsVars>>

\* ------------------------------------------------------------- WebSocket
\* What one sounds message carries: JSON.stringify({type, sounds: soundMap}).
SoundsMessage(m) == Stringify(m)

\* Lines 117-124, broadcastSoundMap: the message is sent to every client of
\* wss.clients whose readyState is OPEN.
BroadcastSoundMap(m, rs, box) ==
    [c \in SubIds |-> IF rs[c] = "open"
                      THEN Append(box[c], SoundsMessage(m)) ELSE box[c]]

\* Lines 126-133, wss.on('connection'): the new client is sent soundMap.
WsConnect(c) ==
    /\ Quiet
    /\ readyState[c] = "none"
    /\ \A d \in SubIds : d < c => readyState[d] # "none"
    /\ readyState' = [readyState EXCEPT ![c] = "open"]
    /\ inbox' = [inbox EXCEPT ![c] = Append(@, SoundsMessage(soundMap))]
    /\ UNCHANGED <<registryVars, connection, playerVars, sessionVars,
                   processVars, microtasks, playReqVars, uploadVars, lastResp>>

\* The client closes its socket: the server only logs it (lines 130-132).
WsClose(c) ==
    /\ Quiet
    /\ readyState[c] = "open"
    /\ readyState' = [readyState EXCEPT ![c] = "closed"]
    /\ inbox' = [inbox EXCEPT ![c] = <<>>]
    /\ UNCHANGED <<registryVars, connection, playerVars, sessionVars,
                   processVars, microtasks, playReqVars, uploadVars, lastResp>>

\* ------------------------------------------------------------- POST /upload
\* The handler of upload u has ended: its locals are gone.
UploadFinish(u) ==
    /\ upc' = [upc EXCEPT ![u] = "done"]
    /\ uname' = [uname EXCEPT ![u] = ""]
    /\ uemoji' = [uemoji EXCEPT ![u] = ""]
    /\ usnap' = [usnap EXCEPT ![u] = NoProps]

\* Lines 137-150: validation, then fs.writeFile of the sound file is awaited.
UploadReceive(u, hasFile, name, emoji) ==
    /\ Quiet
    /\ upc[u] = "new"
    /\ \A v \in UploadIds : v < u => upc[v] # "new"
    /\ IF ~hasFile \/ name = ""
       THEN /\ UploadFinish(u)
            /\ lastResp' = "MissingFileOrName400"
       ELSE /\ upc' = [upc EXCEPT ![u] = "writing"]
            /\ uname' = [uname EXCEPT ![u] = name]
            /\ uemoji' = [uemoji EXCEPT ![u] = emoji]
            /\ UNCHANGED <<usnap, lastResp>>
    /\ UNCHANGED <<registryVars, connection, playerVars, sessionVars,
                   processVars, microtasks, playReqVars, saveRejected, wsVars>>

\* Lines 151-154: the sound file could not be written.
UploadFileFailed(u) ==
    /\ Quiet
    /\ upc[u] = "writing"
    /\ UploadFinish(u)
    /\ lastResp' = "SaveFileFailed500"
    /\ UNCHANGED <<registryVars, connection, playerVars, sessionVars,
                   processVars, microtasks, playReqVars, saveRejected, wsVars>>

\* Lines 156-157 and 42: the file is on disk; soundMap[name] is assigned and
\* saveMap() serialises soundMap and starts writing mappings.json.
UploadPut(u) ==
    /\ Quiet
    /\ upc[u] = "writing"
    /\ files' = files \cup {u}
    /\ soundMap' = Put(soundMap, uname[u], Entry(u, EmojiOrEmpty(uemoji[u])))
    /\ usnap' = [usnap EXCEPT ![u] = Stringify(soundMap')]
    /\ upc' = [upc EXCEPT ![u] = "saving"]
    /\ UNCHANGED <<persisted, written, connection, playerVars, sessionVars,
                   processVars, microtasks, playReqVars, uname, uemoji,
                   saveRejected, wsVars, lastResp>>

\* Lines 157-160: the write of mappings.json has completed with the text that
\* saveMap serialised; the handler broadcasts soundMap and redirects.
UploadSaved(u) ==
    /\ Quiet
    /\ upc[u] = "saving"
    /\ persisted' = usnap[u]
    /\ written' = written \cup FileIds(usnap[u])
    /\ inbox' = BroadcastSoundMap(soundMap, readyState, inbox)
    /\ UploadFinish(u)
    /\ lastResp' = "Redirect302"
    /\ UNCHANGED <<soundMap, files, connection, playerVars, sessionVars,
                   processVars, microtasks, playReqVars, saveRejected,
                   readyState>>

\* What becomes of a rejection that leaves an async route handler: Express 4
\* does not see it (the request is never answered), Express 5 passes it to
\* its error handler, which answers 500.
RejectionOutcomes == {"UnhandledRejection", "InternalError500"}

\* Line 157: fs.writeFile of mappings.json rejected.  The handler has no
\* try/catch around saveMap(): lines 158-160 are skipped.
UploadSaveFailed(u) ==
    /\ Quiet
    /\ upc[u] = "saving"
    /\ saveRejected' = saveRejected \cup {u}
    /\ UploadFinish(u)
    /\ lastResp' \in RejectionOutcomes
    /\ UNCHANGED <<registryVars, connection, playerVars, sessionVars,
                   processVars, microtasks, playReqVars, wsVars>>

\* ------------------------------------------------------------- GET /mappings
\* Lines 164-166: res.json(soundMap) serialises the registry object.
Mappings(m) == Stringify(m)

\* ------------------------------------------------------------- specifications
\* Playback: /play, /stop, the player, the voice connection and the decode
\* processes, over the registry found at start-up.
Next ==
    \/ \E r \in PlayIds, sound \in Names : PlayReceive(r, sound)
    \/ \E r \in PlayIds : PlayFileMissing(r)
    \/ \E r \in PlayIds : PlayNotConnected(r)
    \/ \E r \in PlayIds : PlayPreempt(r)
    \/ \E r \in PlayIds : PlayStartNow(r)
    \/ \E r \in PlayIds : PlayResume(r)
    \/ Stop
    \/ PlayerReadable
    \/ PlayerStreamEnded
    \/ PlayerFinished
    \/ ClientReady
    \/ EntersStateReady
    \/ EntersStateFailed
    \/ \E p \in PlayIds : ProcExit(p)
    \/ \E p \in PlayIds : ProcessError(p)
    \/ \E f \in 0..MaxUploads : DeleteFile(f)

Spec == Init /\ [][Next]_vars

\* What the event loop, the audio cycle, the file system and the voice
\* library do without being asked: queued continuations and listeners run,
\* an awaited fs.stat settles, the player moves on from Buffering and from
\* an ended resource, and entersState settles within its 10 s.  Requests,
\* the exit of a decode process and the 'ready' event are not promised.
Fairness ==
    /\ WF_vars(\E r \in PlayIds : PlayResume(r))
    /\ WF_vars(\E p \in PlayIds : ProcessError(p))
    /\ WF_vars(\E r \in PlayIds : PlayFileMissing(r) \/ PlayNotConnected(r)
                                     \/ PlayPreempt(r) \/ PlayStartNow(r))
    /\ WF_vars(PlayerReadable \/ PlayerStreamEnded \/ PlayerFinished)
    /\ WF_vars(EntersStateReady \/ EntersStateFailed)

LiveSpec == Spec /\ Fairness

\* Registry: /upload and the registry lookup of /play, before the bot has
\* joined a voice channel.
NextReg ==
    \/ \E u \in UploadIds, hasFile \in BOOLEAN, name \in Names \cup {""},
          emoji \in EmojiInputs : UploadReceive(u, hasFile, name, emoji)
    \/ \E u \in UploadIds : UploadFileFailed(u)
    \/ \E u \in UploadIds : UploadPut(u)
    \/ \E u \in UploadIds : UploadSaved(u)
    \/ \E u \in UploadIds : UploadSaveFailed(u)
    \/ \E r \in 1..MaxRegPlays, sound \in Names : PlayReceive(r, sound)
    \/ \E r \in 1..MaxRegPlays : PlayNotConnected(r)

RegSpec == Init /\ [][NextReg]_vars

\* Notification: /upload and the WebSocket clients.
NextNotify ==
    \/ \E u \in UploadIds, hasFile \in BOOLEAN, name \in Names \cup {""},
          emoji \in EmojiInputs : UploadReceive(u, hasFile, name, emoji)
    \/ \E u \in UploadIds : UploadFileFailed(u)
    \/ \E u \in UploadIds : UploadPut(u)
    \/ \E u \in UploadIds : UploadSaved(u)
    \/ \E u \in UploadIds : UploadSaveFailed(u)
    \/ \E c \in SubIds : WsConnect(c)
    \/ \E c \in SubIds : WsClose(c)

NotifySpec == Init /\ [][NextNotify]_vars


\* ------------------------------------------------------------- properties
\* Decode processes that were spawned and have neither ended nor been sent kill().
Live == spawned \ (killed \cup exited \cup failed)

\* /play requests received so far.
Received == Cardinality({r \in PlayIds : pc[r] # "new"})

\* C1: in every reachable state at most one decode process has its output
\* attached to the audio sink (the player's current resource).
OneAttached == Cardinality(attached) <= 1

\* Two /play requests were resumed by the same Idle event: the second has
\* replaced the first one's resource while the first one's process still runs.
OneAttachedWitness == attached = {3} /\ 2 \in Live /\ currentProcess = 3

\* C2: concurrent /play requests are serialized: while one request is between
\* its isPlaying check and the end of its spawn/player.play step, no other
\* request is inside that sequence.
InSequence(r) == pc[r] \in {"waitIdle", "resumed"}
PlaySerialized == \A r, q \in PlayIds : InSequence(r) /\ InSequence(q) => r = q

\* C3: preemption.  The request that finds a process playing sends it kill()
\* in that step and spawns nothing in it; and with two /play requests
\* received, when one is answered Playing with a started process, that
\* process is the only live one and it is currentProcess.
PreemptionCorrect ==
    [][\A r \in PlayIds :
          /\ (pc[r] = "stat" /\ pc'[r] \in {"waitIdle", "resumed"}
                /\ currentProcess # NULL)
               => (currentProcess \in killed' /\ spawned' = spawned)
          /\ (pc[r] # "done" /\ pc'[r] = "done" /\ r \in spawned'
                /\ r \notin failed' /\ Received <= 2)
               => (Live' = {r} /\ currentProcess' = r
                   /\ \A a \in spawned : a \in killed \cup exited \cup failed)
      ]_vars

\* /play(2) preempted the playing process 1 and has been answered Playing.
PreemptionWitness ==
    /\ Received = 2 /\ pc[1] = "done" /\ pc[2] = "done"
    /\ lastResp = "Playing" /\ currentProcess = 2 /\ isPlaying
    /\ 1 \in killed /\ 1 \notin exited /\ Live = {2} /\ idleCleanup = {2}

\* C4: a notification of a superseded session (its 'error' event, or its
\* once(Idle) listener run by an Idle event that is not the current
\* session's own) leaves isPlaying, currentProcess and the player alone
\* while a newer session is active.
StaleNotificationIgnored ==
    [][\A p \in PlayIds :
          LET newer == isPlaying /\ currentProcess # NULL /\ currentProcess # p
              kept == /\ isPlaying' /\ currentProcess' = currentProcess
                      /\ padding' = padding /\ status' = status
          IN /\ (p \in errPending /\ p \notin errPending' /\ newer) => kept
             /\ (p \in idleCleanup /\ p \notin idleCleanup' /\ newer
                   /\ currentProcess \notin attached) => kept
      ]_vars

\* C5: when /stop answers, isPlaying is false, currentProcess is null and the
\* process currentProcess referred to has been sent kill().
StopReturnsIdle ==
    [][Stop => /\ ~isPlaying' /\ currentProcess' = NULL
               /\ lastResp' = "Stopped"
               /\ (currentProcess # NULL => currentProcess \in killed')
      ]_vars

\* /stop has just answered a request that found process 1 playing.
StopReturnsIdleWitness ==
    /\ lastResp = "Stopped" /\ ~isPlaying /\ currentProcess = NULL
    /\ attached = {1} /\ 1 \in killed /\ padding /\ status = "playing"

\* C6: /stop is idempotent: from Idle it changes nothing and answers
\* Stopped, and a second /stop right after a first changes nothing more.
IsIdle(s) == ~s.isPlaying /\ s.currentProcess = NULL /\ s.status = "idle"
StopIdempotent ==
    [][Stop => /\ lastResp' = "Stopped"
               /\ (IsIdle(Orch) => Orch' = Orch)
               /\ StopHandler(Orch') = Orch'
      ]_vars

\* /stop has answered although nothing was ever played.
StopIdempotentWitness == lastResp = "Stopped" /\ spawned = {} /\ IsIdle(Orch)


\* C7: natural completion.  Once the process of the accepted session has
\* exited by itself and no request is in flight, the orchestrator returns to
\* Idle unless a further /play is received (a /stop makes it Idle at once).
NoneInFlight == \A r \in PlayIds : pc[r] \in {"new", "done"}
NaturalCompletion ==
    \A p \in PlayIds, n \in 0..MaxPlays :
        (isPlaying /\ currentProcess = p /\ p \in exited /\ NoneInFlight
            /\ Received = n)
        ~> ((~isPlaying /\ currentProcess = NULL) \/ Received > n)

\* C8: a /play naming a clip that is not in the registry is answered 404
\* ClipNotFound, whatever the state.
InRegistry(name) ==
    \/ name \in DOMAIN soundMap.own
    \/ name = "__proto__" /\ soundMap.proto.kind = "entry"
UnknownClipIs404 ==
    [][\A r \in PlayIds, sound \in Names :
          (PlayReceive(r, sound) /\ ~InRegistry(sound))
             => (pc'[r] = "done" /\ lastResp' = "ClipNotFound404")
      ]_vars

\* C9: a /play answered ClipNotFound, FileMissing or SinkUnavailable spawns
\* nothing and leaves isPlaying, currentProcess and the player as they were.
Rejections == {"ClipNotFound404", "FileMissing404", "NotConnected500"}
RejectedPlayChangesNothing ==
    [][\A r \in PlayIds :
          (pc[r] # "done" /\ pc'[r] = "done" /\ lastResp' \in Rejections)
             => UNCHANGED <<isPlaying, currentProcess, status, attached,
                            padding, idleCleanup, idleWaiters, spawned,
                            killed, errPending>>
      ]_vars

\* A /play was answered FileMissing while another clip is playing.
RejectedPlayWitness ==
    /\ lastResp = "FileMissing404" /\ isPlaying /\ currentProcess = 1
    /\ status = "playing" /\ pc[2] = "done" /\ 2 \notin spawned

\* C10: read-your-write.  The step that executes soundMap[name] = entry makes
\* both soundMap[name] and the /mappings listing return that entry, and no
\* other step (a failed snapshot write included) changes what they return.
Listed(m, n) == IF n \in DOMAIN Mappings(m) THEN Mappings(m)[n] ELSE Undefined
ReadYourWrite ==
    [][\A n \in Names :
          LET puts == {u \in UploadIds : upc[u] = "writing" /\ upc'[u] = "saving"
                                           /\ uname[u] = n}
          IN IF puts # {}
             THEN \A u \in puts :
                     /\ Get(soundMap', n) = Entry(u, EmojiOrEmpty(uemoji[u]))
                     /\ Listed(soundMap', n) = Entry(u, EmojiOrEmpty(uemoji[u]))
             ELSE /\ Get(soundMap', n) = Get(soundMap, n)
                  /\ Listed(soundMap', n) = Listed(soundMap, n)
      ]_vars

\* The sounds message sent to client c in this step, if one was.
SentNow(c) == Len(inbox'[c]) > Len(inbox[c])
LastMessage(box) == box[Len(box)]

\* Upload u is answered with the redirect in this step.
Acknowledged(u) == upc[u] = "saving" /\ upc'[u] = "done" /\ u \notin saveRejected'

\* C11: persist before notify and before acknowledge.  Every entry of a
\* sounds message sent to a client has been in a completed write of
\* mappings.json by then, and so has the entry of an upload when that upload
\* is answered, also with several uploads in flight.
PersistedBeforeVisible ==
    [][/\ \A c \in SubIds :
            SentNow(c) => FileIds(LastMessage(inbox'[c])) \subseteq written'
       /\ \A u \in UploadIds : Acknowledged(u) => u \in written'
      ]_vars

\* The write of mappings.json started by upload u is rejected in this step.
SaveRejectedNow(u) == u \in saveRejected' /\ u \notin saveRejected

\* Responses that tell the uploader that the upload failed.
ErrorResponses == {"InternalError500", "SaveFileFailed500"}

\* C12: when the write of mappings.json fails after soundMap[name] was
\* assigned, the upload is answered with an error response and soundMap
\* keeps the new entry.
SaveFailureReported ==
    [][\A u \in UploadIds :
          SaveRejectedNow(u)
             => /\ lastResp' \in ErrorResponses
                /\ soundMap' = soundMap
      ]_vars

\* C13: no request hangs.  Every /play that has been received is eventually
\* answered, also one that waits in stopCurrentPlayback; /stop answers in
\* the step that receives it; and no /upload ends without a response.
NoRequestHangs ==
    /\ \A r \in PlayIds : (pc[r] # "new") ~> (pc[r] = "done")
    /\ [][Stop => lastResp' = "Stopped"]_vars
    /\ \A u \in UploadIds : (upc[u] # "new") ~> (upc[u] = "done")
    /\ [](lastResp # "UnhandledRejection")

\* Request r spawns its decode process in this step.
StartsNow(r) == r \in spawned' /\ r \notin spawned

\* C14: both cancellation paths return with the old process signalled and
\* its stream unlinked from the player.  When /stop answers, and when the
\* await of stopCurrentPlayback returns to /play, every process that was
\* started has ended or been sent kill() and the player is Idle with no
\* resource; so no /play starts a process while an older stream is attached.
CancellationUnlinks ==
    [][/\ Stop => (Live' = {} /\ status' = "idle" /\ attached' = {})
       /\ \A r \in PlayIds :
            (pc[r] = "resumed" /\ pc'[r] = "done")
               => (Live = {} /\ status = "idle" /\ attached = {})
       /\ \A r \in PlayIds : StartsNow(r) => attached = {}
      ]_vars

\* The 'error' event of process p is handled in this step.
ErrorHandledNow(p) == p \in errPending /\ p \notin errPending'

\* spawn threw in this step: request r is answered by the catch of line 238.
SpawnThrewNow(r) ==
    pc[r] \in {"stat", "resumed"} /\ pc'[r] = "done" /\ lastResp' = "InternalError500"

\* C15: a failure of the decode process, reported by its 'error' event or by
\* spawn throwing, leaves isPlaying false, currentProcess null and the player
\* stopped, and nothing is spawned for that request afterwards.
FailureReturnsToIdle ==
    [][/\ \A p \in PlayIds :
            ErrorHandledNow(p)
               => /\ ~isPlaying' /\ currentProcess' = NULL
                  /\ (status' = "idle" \/ padding')
                  /\ spawned' = spawned
       /\ \A r \in PlayIds :
            SpawnThrewNow(r)
               => (~isPlaying' /\ currentProcess' = NULL /\ spawned' = spawned)
       /\ \A r \in PlayIds : pc[r] = "done" => (pc'[r] = "done" /\ ~StartsNow(r))
      ]_vars

\* Client c subscribes in this step.
SubscribesNow(c) == readyState[c] = "none" /\ readyState'[c] = "open"

\* Message msg carries the entry that soundMap holds under name.
Carries(msg, m, name) == name \in DOMAIN msg /\ msg[name] = Get(m, name)

\* C16: a client is sent exactly one message when it subscribes, the current
\* soundMap; and when an upload has been saved, every open client is sent
\* one message, which carries the entry stored under the uploaded name.
SubscribersNotified ==
    [][/\ \A c \in SubIds :
            SubscribesNow(c) => inbox'[c] = <<SoundsMessage(soundMap)>>
       /\ \A u \in UploadIds, c \in SubIds :
            (Acknowledged(u) /\ readyState[c] = "open")
               => /\ inbox'[c] = Append(inbox[c], LastMessage(inbox'[c]))
                  /\ Carries(LastMessage(inbox'[c]), soundMap, uname[u])
      ]_vars

\* C17: a /stop is not overridden by a /play that was suspended in its
\* preemption when /stop answered.  isPlaying is false after /stop until
\* the next process is started, and every start writes a response, so a
\* state with lastResp = "Stopped" and r suspended is one where r was
\* suspended when the last /stop answered: r never spawns from there on.
StopNotOverridden ==
    \A r \in PlayIds :
        []((lastResp = "Stopped" /\ InSequence(r)) => [](r \notin spawned))

\* C18: no orphaned decode process.  Every process that was started and has
\* neither ended nor been sent kill() is the one currentProcess refers to,
\* and after /stop no such process is left.
NoOrphanedDecoder ==
    [][/\ \A p \in Live' : p = currentProcess'
       /\ Stop => Live' = {}
      ]_vars

\* C19: in every reachable state, isPlaying = false implies
\* currentProcess = null.
FlagHandleConsistent == ~isPlaying => currentProcess = NULL

\* Process 1 was current, ended by itself, and the Idle listener of its
\* session has cleared both the flag and the handle.
FlagHandleWitness ==
    /\ ~isPlaying /\ currentProcess = NULL
    /\ 1 \in exited /\ 1 \notin killed /\ status = "idle" /\ idleCleanup = {}
    /\ lastResp = "Playing"

\* No upload is between its reception and the end of its handler.
NoUploadInFlight == \A u \in UploadIds : upc[u] \in {"new", "done"}

\* C20: snapshot convergence.  Whenever no upload is in flight and no write
\* of mappings.json has failed, mappings.json holds what soundMap
\* serialises to, whatever the order in which concurrent writes completed.
SnapshotConverges ==
    (NoUploadInFlight /\ saveRejected = {}) => persisted = Stringify(soundMap)

====
